---- MODULE Spec2Model ----
(***************************************************************************)
(* Model of the atomic batched queue fetcher (package fetcher):            *)
(* the Lua script extractCommand executed by the store, and                *)
(* RedisFetcher.Fetch, which runs the script once and decodes the reply.   *)
(* Producers append payloads to the lists of the store; any number of      *)
(* Fetch calls run concurrently against them (Spec, SpecWire, SpecKeys,    *)
(* and SpecDrain, SpecDrainFair for callers that fetch again and again).   *)
(* The packages around it have a section and specifications each:          *)
(* buffer.ByteBuffer (SpecBuf, SpecBufHist, SpecBufRace),                  *)
(* http.RoundTripRateLimiterTransport (SpecRate, SpecRateFair),            *)
(* cmd.Options (SpecOpt, SpecOptAll), slices.Contains (SpecContains) and   *)
(* string.SplitStringWithWidthConstraints (SpecSplit).                     *)
(***************************************************************************)
EXTENDS Integers, Sequences, FiniteSets, TLC

\* ------------------------------------------------------------------ bounds
\* Number of payloads the producers push in one behaviour.
MaxItems == 4
\* const maxTask = 1000 (fetcher.go:42), scaled down so that a list longer
\* than the cap is reachable.
maxTask == 2

\* The Fetch calls of one behaviour; they may overlap in any way.
Calls == {"c1", "c2"}
Keys == {"k1", "k2"}
\* The queue the producers and the callers of Spec work on.
Queue == "k1"

\* A raw item of a list: id tells the items apart (the position at which a
\* producer pushed it), form is what the item is on the wire: a string
\* holding a JSON document of T, a string that is no JSON, or a scalar that
\* is no string.
Forms == {"json", "text"}
WireForms == Forms \cup {"int64"}
Payload(id, form) == [id |-> id, form |-> form]

\* The zero value of T (what new(T) points to), and the value a JSON
\* payload decodes to.
ZeroT == [id |-> 0]
Item(id) == [id |-> id]

\* A Go slice: nil, or a (possibly empty) sequence of elements.
NilSlice == [nil |-> TRUE, elems |-> <<>>]
Slice(elems) == [nil |-> FALSE, elems |-> elems]

NoErr == "nil"
ErrCanceled == "context canceled"
ErrTransport == "transport"
ErrOperation == "operation"

VARIABLES
    store,    \* store[k]: the list at key k, head first
    pushed,   \* pushed[k]: every payload ever appended to key k, in order
    nextId,   \* id of the next payload a producer pushes
    call,     \* call[c]: the state of Fetch call c
    bb,       \* a ByteBuffer: its slice bytes (backing array and length)
    bbOut,    \* the last call on the ByteBuffer and what it returned
    bbHist,   \* all bytes written to the ByteBuffer and all bytes read from it
    bbW,      \* bbW[g]: the Write that goroutine g is in on the ByteBuffer
    lim,      \* the rate.Limiter of a RoundTripRateLimiterTransport
    now,      \* the time, in ticks
    req,      \* req[r]: the state of the RoundTrip of request r
    opts,     \* a cmd.Options: its fields
    chans,    \* chans[ch]: the state of the channel ch
    optOut,   \* the last call of a setter of the Options and what it returned
    pure      \* the arguments and the result of a call of a pure function

vars ==
    <<store, pushed, nextId, call, bb, bbOut, bbHist, bbW, lim, now, req,
      opts, chans, optOut, pure>>

\* The variables of the other packages, which the fetcher leaves alone.
others ==
    <<bb, bbOut, bbHist, bbW, lim, now, req, opts, chans, optOut, pure>>
bufVars == <<bb, bbOut, bbHist, bbW>>
rateVars == <<lim, now, req>>
optVars == <<opts, chans, optOut>>

\* ByteBuffer{}: bytes is a nil slice (no backing array, length 0).
\* arr is the backing array from the start of the slice on, so that
\* Len(arr) is cap(bytes); len is len(bytes).
ZeroBuffer == [arr |-> <<>>, len |-> 0]
NoCall == [op |-> "none", n |-> 0, err |-> NoErr, before |-> <<>>,
           data |-> <<>>, dst |-> <<>>]
\* Nothing has been written or read.
NoHist == [written |-> <<>>, read |-> <<>>]
\* The goroutines that write to one shared ByteBuffer, none of them in a
\* Write.
Writers == {"g1", "g2"}
NoWrite == [pc |-> "idle", bytes |-> ZeroBuffer, data |-> <<>>]
BufIdle ==
    /\ bb = ZeroBuffer
    /\ bbOut = NoCall
    /\ bbHist = NoHist
    /\ bbW = [g \in Writers |-> NoWrite]

\* The requests sent through one transport; they may overlap in any way.
Reqs == {"r1", "r2", "r3"}
\* A request RoundTrip has not been called with.
IdleReq ==
    [pc |-> "idle", ctx |-> [kind |-> "background", deadline |-> 0],
     canceled |-> FALSE, timeToAct |-> 0, waitErr |-> NoErr,
     forwardedAt |-> <<>>, resp |-> "nil", err |-> NoErr]
\* No transport has been built: a limiter that is never used.
NoLimiter ==
    [limitPeriod |-> 1, requestCount |-> 0,
     period |-> 1, burst |-> 0, tokens |-> 0, last |-> 0, lastEvent |-> 0]
RateIdle == lim = NoLimiter /\ now = 0 /\ req = [r \in Reqs |-> IdleReq]

\* The channels a caller makes: ch1 by make(chan struct{}), ch2 by
\* make(chan struct{}, MaxCap).  A channel is open or closed and holds
\* pending values up to its capacity.
MaxCap == 1
Chans == {"ch1", "ch2"}
NilChan == "nil"
NewChans ==
    [ch \in Chans |->
        [cap |-> IF ch = "ch1" THEN 0 ELSE MaxCap, closed |-> FALSE, pending |-> 0]]
\* &Options{}: no field is set.  Command, Args and stdOutBuffer are fields
\* of the fuller Options (src/http/transport_test.go:216-237).
ZeroOptions ==
    [ctx |-> "nil", doneCh |-> NilChan,
     Command |-> "", Args |-> <<>>, stdOutBuffer |-> "nil"]
NoSetter ==
    [op |-> "none", arg |-> "nil", err |-> NoErr,
     before |-> ZeroOptions, chansBefore |-> NewChans]
OptIdle ==
    /\ opts = ZeroOptions
    /\ chans = NewChans
    /\ optOut = NoSetter

\* No function has been called.
NoPure == [op |-> "none"]
PureIdle == pure = NoPure

OthersIdle == BufIdle /\ RateIdle /\ OptIdle /\ PureIdle

\* ------------------------------------------------------- the Lua script
\* LINDEX key 0 in place of LPOP: the head is read and left in the list.
LPOP_peek(list) ==
    IF list = <<>>
    THEN [task |-> FALSE, ok |-> FALSE, list |-> list]
    ELSE [task |-> Head(list), ok |-> TRUE, list |-> list]

\* The pop takes the head and drops the element behind it as well.
LPOP_two(list) ==
    IF list = <<>>
    THEN [task |-> FALSE, ok |-> FALSE, list |-> list]
    ELSE [task |-> Head(list), ok |-> TRUE,
          list |-> IF Len(list) > 1 THEN Tail(Tail(list)) ELSE <<>>]

\* RPOP in place of LPOP: the pop takes the tail of the list.
LPOP_tail(list) ==
    IF list = <<>>
    THEN [task |-> FALSE, ok |-> FALSE, list |-> list]
    ELSE [task |-> list[Len(list)], ok |-> TRUE,
          list |-> SubSeq(list, 1, Len(list) - 1)]

\* redis.call('LPOP', key): the head of the list and the list without it;
\* false for an empty (absent) list.
LPOP(list) ==
    IF list = <<>>
    THEN [task |-> FALSE, ok |-> FALSE, list |-> list]
    ELSE [task |-> Head(list), ok |-> TRUE, list |-> Tail(list)]

\* table.insert(tasks, 1, task): each task goes to the front of the table.
RECURSIVE LuaLoop_prepend(_, _, _, _)
LuaLoop_prepend(i, max_tasks, list, tasks) ==
    IF i > max_tasks \/ list = <<>>
    THEN [tasks |-> tasks, list |-> list]
    ELSE LuaLoop_prepend(i + 1, max_tasks, Tail(list), <<Head(list)>> \o tasks)

\* for i = 0, max_tasks: one iteration too many.
RECURSIVE LuaLoop_fromZero(_, _, _, _)
LuaLoop_fromZero(i, max_tasks, list, tasks) ==
    IF i > max_tasks + 1 \/ list = <<>>
    THEN [tasks |-> tasks, list |-> list]
    ELSE LuaLoop_fromZero(i + 1, max_tasks, Tail(list), Append(tasks, Head(list)))

\* for i = 1, max_tasks do ... end
RECURSIVE LuaLoop(_, _, _, _)
LuaLoop(i, max_tasks, list, tasks) ==
    IF i > max_tasks
    THEN [tasks |-> tasks, list |-> list]
    ELSE LET r == LPOP(list) IN
         IF ~r.ok
         THEN [tasks |-> tasks, list |-> list]                      \* break
         ELSE LuaLoop(i + 1, max_tasks, r.list, Append(tasks, r.task))

\* LRANGE key 0 max_tasks-1 in place of the LPOP loop: the tasks are
\* returned and stay in the list.
extractCommand_noRemove(list, max_tasks) ==
    [tasks |-> LuaLoop(1, max_tasks, list, <<>>).tasks, list |-> list]

\* The script pops only when the list holds a whole batch.
extractCommand_fullBatchOnly(list, max_tasks) ==
    IF Len(list) < max_tasks
    THEN [tasks |-> <<>>, list |-> list]
    ELSE LuaLoop(1, max_tasks, list, <<>>)

\* The script as the store executes it: one indivisible step on the list
\* at KEYS[1] that returns the table tasks.
extractCommand(list, max_tasks) == LuaLoop(1, max_tasks, list, <<>>)

\* --------------------------------------------------------- Fetch's loop
\* task.(string)
IsString(task) == task.form # "int64"

\* json.Unmarshal([]byte(value), out)
Unmarshal(value) ==
    IF value.form = "json"
    THEN [err |-> FALSE, out |-> Item(value.id)]
    ELSE [err |-> TRUE, out |-> ZeroT]

\* range results[1:]: the first item of the reply is never looked at.
DecodeLoop_skipFirst(results, tasks) ==
    LET rest == IF results = <<>> THEN <<>> ELSE Tail(results)
        good == SelectSeq(rest, LAMBDA p : p.form = "json")
    IN tasks \o [i \in 1..Len(good) |-> Item(good[i].id)]

\* break in place of continue: the loop ends at the first malformed item.
RECURSIVE DecodeLoop_break(_, _)
DecodeLoop_break(results, tasks) ==
    IF results = <<>> \/ Head(results).form # "json"
    THEN tasks
    ELSE DecodeLoop_break(Tail(results), Append(tasks, Item(Head(results).id)))

\* The continue left out: a payload that fails to decode is appended as
\* the zero value.
RECURSIVE DecodeLoop_keepMalformed(_, _)
DecodeLoop_keepMalformed(results, tasks) ==
    IF results = <<>>
    THEN tasks
    ELSE LET r == Unmarshal(Head(results))
         IN  DecodeLoop_keepMalformed(Tail(results), Append(tasks, r.out))

\* for _, task := range results { ... }
RECURSIVE DecodeLoop(_, _)
DecodeLoop(results, tasks) ==
    IF results = <<>>
    THEN tasks
    ELSE LET task == Head(results)
             out == ZeroT                                        \* new(T)
         IN IF IsString(task)
            THEN LET r == Unmarshal(task) IN
                 IF r.err
                 THEN DecodeLoop(Tail(results), tasks)           \* continue
                 ELSE DecodeLoop(Tail(results), Append(tasks, r.out))
            ELSE DecodeLoop(Tail(results), Append(tasks, out))

\* var tasks []T in place of make([]T, 0): the slice stays nil until the
\* first append.
FetchResult_nilTasks(result, err) ==
    IF err # NoErr
    THEN [tasks |-> NilSlice, err |-> err]
    ELSE LET elems == IF Len(result) > 0 THEN DecodeLoop(result, <<>>) ELSE <<>>
         IN [tasks |-> IF elems = <<>> THEN NilSlice ELSE Slice(elems),
             err |-> NoErr]

\* The error check left out: Fetch goes on to the loop with the nil result.
FetchResult_errIgnored(result, err) ==
    [tasks |-> Slice(IF Len(result) > 0 THEN DecodeLoop(result, <<>>) ELSE <<>>),
     err |-> NoErr]

\* return tasks, err with tasks made before the check: the batch that goes
\* with an error is empty but not nil, and the error is a new one.
FetchResult_wrapErr(result, err) ==
    IF err # NoErr
    THEN [tasks |-> Slice(<<>>), err |-> "fetch failed"]
    ELSE [tasks |-> Slice(IF Len(result) > 0 THEN DecodeLoop(result, <<>>) ELSE <<>>),
          err |-> NoErr]

\* Fetch after extractCommand.Run(...).Result() gave (result, err).
FetchResult(result, err) ==
    IF err # NoErr
    THEN [tasks |-> NilSlice, err |-> err]
    ELSE LET tasks == <<>>                                   \* make([]T, 0)
         IN IF Len(result) > 0
            THEN [tasks |-> Slice(DecodeLoop(result, tasks)), err |-> NoErr]
            ELSE [tasks |-> Slice(tasks), err |-> NoErr]

\* ------------------------------------------------------------------ state
IdleCall ==
    [pc |-> "idle", keys |-> <<>>, canceled |-> FALSE, preCanceled |-> FALSE,
     executed |-> FALSE, snap |-> <<>>, raw |-> <<>>,
     runOk |-> FALSE, runErr |-> NoErr,
     ret |-> [tasks |-> NilSlice, err |-> NoErr]]

\* No Fetch has been called and the queues are empty.
FetchIdle ==
    /\ store = [k \in Keys |-> <<>>]
    /\ pushed = [k \in Keys |-> <<>>]
    /\ nextId = 1
    /\ call = [c \in Calls |-> IdleCall]

fetchVars == <<store, pushed, nextId, call>>

Init == FetchIdle /\ OthersIdle

\* A producer appends one payload to the list at key k (RPUSH).
RPush(k, form) ==
    /\ nextId <= MaxItems
    /\ store' = [store EXCEPT ![k] = Append(@, Payload(nextId, form))]
    /\ pushed' = [pushed EXCEPT ![k] = Append(@, Payload(nextId, form))]
    /\ nextId' = nextId + 1
    /\ UNCHANGED <<call, others>>

\* The caller (or a deadline) cancels the context of call c; this may
\* happen before Fetch is called and at any moment until it returns.
Cancel(c) ==
    /\ call[c].pc # "returned"
    /\ ~call[c].canceled
    /\ call' = [call EXCEPT ![c].canceled = TRUE]
    /\ UNCHANGED <<store, pushed, nextId, others>>

\* Fetch(ctx, keys) is entered and calls extractCommand.Run.
FetchCall(c, keys) ==
    /\ call[c].pc = "idle"
    /\ call' = [call EXCEPT ![c].pc = "run", ![c].keys = keys,
                            ![c].preCanceled = call[c].canceled]
    /\ UNCHANGED <<store, pushed, nextId, others>>

\* Fetch runs the command again after a transport error.
ReturnErr_retry(c, err) ==
    call' = IF err = ErrTransport
            THEN [call EXCEPT ![c].pc = "inflight"]
            ELSE [call EXCEPT ![c].pc = "returned", ![c].runErr = err,
                              ![c].ret = FetchResult(<<>>, err)]

\* Fetch returns (nil, err): if err != nil { return nil, err }.
ReturnErr(c, err) ==
    call' = [call EXCEPT ![c].pc = "returned", ![c].runErr = err,
                         ![c].ret = FetchResult(<<>>, err)]

\* Run with a context that is already done: the client gives the context's
\* error back without sending the command.
RunCanceled(c) ==
    /\ call[c].pc = "run"
    /\ call[c].canceled
    /\ ReturnErr(c, ErrCanceled)
    /\ UNCHANGED <<store, pushed, nextId, others>>

\* Run sends the command: the round trip begins.
Dispatch(c) ==
    /\ call[c].pc = "run"
    /\ ~call[c].canceled
    /\ call' = [call EXCEPT ![c].pc = "inflight"]
    /\ UNCHANGED <<store, pushed, nextId, others>>

\* The script reads KEYS[#KEYS]: the pop goes to the last key of the list.
StoreExec_lastKey(c) ==
    /\ call[c].pc = "inflight"
    /\ LET key == call[c].keys[Len(call[c].keys)]
           r == extractCommand(store[key], maxTask)
       IN /\ store' = [store EXCEPT ![key] = r.list]
          /\ call' = [call EXCEPT ![c].pc = "replied", ![c].executed = TRUE,
                                  ![c].snap = store[key], ![c].raw = r.tasks]
    /\ UNCHANGED <<pushed, nextId, others>>

\* The store executes the script on KEYS[1] with ARGV[1] = maxTask.
StoreExec(c) ==
    /\ call[c].pc = "inflight"
    /\ LET key == call[c].keys[1]
           r == extractCommand(store[key], maxTask)
       IN /\ store' = [store EXCEPT ![key] = r.list]
          /\ call' = [call EXCEPT ![c].pc = "replied", ![c].executed = TRUE,
                                  ![c].snap = store[key], ![c].raw = r.tasks]
    /\ UNCHANGED <<pushed, nextId, others>>

\* The store refuses the command: nothing is executed.
StoreReject(c) ==
    /\ call[c].pc = "inflight"
    /\ ReturnErr(c, ErrOperation)
    /\ UNCHANGED <<store, pushed, nextId, others>>

\* The connection fails, before the store got the command or before the
\* client got the reply.
TransportFail(c) ==
    /\ call[c].pc \in {"inflight", "replied"}
    /\ ReturnErr(c, ErrTransport)
    /\ UNCHANGED <<store, pushed, nextId, others>>

\* The client sees the context done while it waits for the reply.
CancelObserved(c) ==
    /\ call[c].pc \in {"inflight", "replied"}
    /\ call[c].canceled
    /\ ReturnErr(c, ErrCanceled)
    /\ UNCHANGED <<store, pushed, nextId, others>>

\* Run(...).Result() returns the reply with a nil error.
RunReturns(c) ==
    /\ call[c].pc = "replied"
    /\ call' = [call EXCEPT ![c].pc = "decoding", ![c].runOk = TRUE]
    /\ UNCHANGED <<store, pushed, nextId, others>>

\* The loop tests ctx.Err() and gives up a canceled call.
FetchDecode_checksCtx(c) ==
    /\ call[c].pc = "decoding"
    /\ call' = [call EXCEPT ![c].pc = "returned",
                            ![c].ret = IF call[c].canceled
                                       THEN FetchResult(<<>>, ErrCanceled)
                                       ELSE FetchResult(call[c].raw, NoErr)]
    /\ UNCHANGED <<store, pushed, nextId, others>>

\* The fetcher keeps the reply of a call that failed and hands it out with
\* the next batch.
FetchDecode_redeliver(c) ==
    /\ call[c].pc = "decoding"
    /\ LET kept == IF \E d \in Calls : call[d].pc = "returned"
                                         /\ call[d].ret.err # NoErr
                   THEN call[CHOOSE d \in Calls :
                                 call[d].pc = "returned"
                                 /\ call[d].ret.err # NoErr].raw
                   ELSE <<>>
       IN  call' = [call EXCEPT ![c].pc = "returned",
                                ![c].ret = FetchResult(kept \o call[c].raw, NoErr)]
    /\ UNCHANGED <<store, pushed, nextId, others>>

\* Fetch decodes the reply and returns (tasks, nil).
FetchDecode(c) ==
    /\ call[c].pc = "decoding"
    /\ call' = [call EXCEPT ![c].pc = "returned",
                            ![c].ret = FetchResult(call[c].raw, NoErr)]
    /\ UNCHANGED <<store, pushed, nextId, others>>

CallStep(c, keyLists) ==
    \/ Cancel(c)
    \/ \E keys \in keyLists : FetchCall(c, keys)
    \/ RunCanceled(c)
    \/ Dispatch(c)
    \/ StoreExec(c)
    \/ StoreReject(c)
    \/ TransportFail(c)
    \/ CancelObserved(c)
    \/ RunReturns(c)
    \/ FetchDecode(c)

Next ==
    \/ \E form \in Forms : RPush(Queue, form)
    \/ \E c \in Calls : CallStep(c, {<<Queue>>})

Spec == Init /\ [][Next]_vars

\* The same system over a store whose reply may hold items that are no
\* strings (rdb is any redis.UniversalClient and the reply's elements are
\* interface{} values: Fetch itself tests task.(string)).
NextWire ==
    \/ \E form \in WireForms : RPush(Queue, form)
    \/ \E c \in Calls : CallStep(c, {<<Queue>>})

SpecWire == Init /\ [][NextWire]_vars

\* The key lists a caller passes to Fetch when there are several queues.
KeyLists == {<<"k1">>, <<"k1", "k2">>, <<"k2", "k1">>}

\* Several queues: producers push decodable payloads to any key, callers
\* pass any key list; the contexts are never canceled and the connection
\* does not fail.
NextKeys ==
    \/ \E k \in Keys : RPush(k, "json")
    \/ \E c \in Calls :
           \/ \E keys \in KeyLists : FetchCall(c, keys)
           \/ Dispatch(c)
           \/ StoreExec(c)
           \/ StoreReject(c)
           \/ RunReturns(c)
           \/ FetchDecode(c)

SpecKeys == Init /\ [][NextKeys]_vars

\* ============================================================ ByteBuffer
\* Bounds of SpecBuf: the longest content the buffer reaches, and the
\* longest data of one Write, destination of one Read or reader of one
\* ReadFrom.
MaxBuf == 4
MaxData == 2
\* bufferCapacity = 64 in ReadFrom, scaled down so that the buffer fills up
\* and is doubled.
initialCapacity == 2

ByteValues == {"a", "b"}
\* Every sequence of at most n byte values.
BytesUpTo(n) == UNION {[1..k -> ByteValues] : k \in 0..n}
\* n zero bytes (what make([]byte, n) holds), n bytes of earlier content.
Zeros(n) == [i \in 1..n |-> "0"]
Stale(n) == [i \in 1..n |-> "x"]

\* b.bytes as a sequence: the first len(bytes) elements of the array.
Bytes(b) == SubSeq(b.arr, 1, b.len)

\* append(b.bytes, data...): in place when the capacity is enough, else in
\* a new array whose capacity is at least the new length (spare is how much
\* more the runtime happens to allocate).
AppendBytes(b, data, spare) ==
    LET need == b.len + Len(data) IN
    IF need <= Len(b.arr)
    THEN [arr |-> Bytes(b) \o data \o SubSeq(b.arr, need + 1, Len(b.arr)),
          len |-> need]
    ELSE [arr |-> Bytes(b) \o data \o Zeros(spare), len |-> need]

\* func (b *ByteBuffer) Write(data []byte) (int, error)
Write(b, data, spare) ==
    LET bytes == AppendBytes(b, data, spare) IN
    [bb |-> bytes, n |-> bytes.len, err |-> NoErr]

\* copy(dst, src): the first min(len(dst), len(src)) elements are copied.
Copy(dst, src) ==
    LET n == IF Len(dst) < Len(src) THEN Len(dst) ELSE Len(src) IN
    [n |-> n, dst |-> SubSeq(src, 1, n) \o SubSeq(dst, n + 1, Len(dst))]

\* The check for the empty buffer left out.
Read_noEmptyCheck(b, p) ==
    LET c == Copy(p, Bytes(b)) IN
    [bb |-> [arr |-> SubSeq(b.arr, c.n + 1, Len(b.arr)), len |-> b.len - c.n],
     n |-> c.n, err |-> NoErr, p |-> c.dst]

\* b.bytes = b.bytes[n:] left out: the bytes read stay in the buffer.
Read_noAdvance(b, p) ==
    IF b.len = 0
    THEN [bb |-> b, n |-> 0, err |-> "buffer is empty", p |-> p]
    ELSE LET c == Copy(p, Bytes(b)) IN
         [bb |-> b, n |-> c.n, err |-> NoErr, p |-> c.dst]

\* func (b *ByteBuffer) Read(p []byte) (int, error)
Read(b, p) ==
    IF b.len = 0
    THEN [bb |-> b, n |-> 0, err |-> "buffer is empty", p |-> p]
    ELSE LET c == Copy(p, Bytes(b)) IN
         \* b.bytes = b.bytes[n:]
         [bb |-> [arr |-> SubSeq(b.arr, c.n + 1, Len(b.arr)), len |-> b.len - c.n],
          n |-> c.n, err |-> NoErr, p |-> c.dst]

\* An io.Reader over data: each Read gives at most chunk bytes, and reports
\* io.EOF together with the last bytes (eofWithData) or on the next Read.
ReaderRead(r, plen) ==
    LET m1 == IF plen < r.chunk THEN plen ELSE r.chunk
        n == IF Len(r.data) < m1 THEN Len(r.data) ELSE m1
    IN [n |-> n,
        bytes |-> SubSeq(r.data, 1, n),
        eof |-> r.data = <<>> \/ (r.eofWithData /\ n = Len(r.data)),
        r |-> [r EXCEPT !.data = SubSeq(r.data, n + 1, Len(r.data))]]

\* The for loop of ReadFrom; buffer is the local slice (its length is
\* bufferCapacity).
RECURSIVE ReadFromLoop(_, _, _)
ReadFromLoop(buffer, totalBytesRead, reader) ==
    LET bufferCapacity == Len(buffer)
        grown == IF totalBytesRead = bufferCapacity
                 THEN buffer \o Zeros(bufferCapacity)      \* capacity doubled
                 ELSE buffer
        got == ReaderRead(reader, Len(grown) - totalBytesRead)
        filled == SubSeq(grown, 1, totalBytesRead) \o got.bytes
                  \o SubSeq(grown, totalBytesRead + got.n + 1, Len(grown))
        total == totalBytesRead + got.n
    IN IF got.eof
       THEN [bb |-> [arr |-> filled, len |-> total], n |-> total, err |-> NoErr]
       ELSE ReadFromLoop(filled, total, got.r)

\* func (b *ByteBuffer) ReadFrom(reader io.Reader) (int64, error)
ReadFrom(b, reader) ==
    LET initialSize == b.len
        buffer == IF Len(b.arr) = 0
                  THEN Zeros(initialCapacity)
                  ELSE b.arr                        \* buffer[:bufferCapacity]
    IN ReadFromLoop(buffer, initialSize, reader)

DoWrite(data, spare) ==
    /\ bb.len + Len(data) <= MaxBuf
    /\ LET r == Write(bb, data, spare) IN
       /\ bb' = r.bb
       /\ bbOut' = [op |-> "Write", n |-> r.n, err |-> r.err,
                    before |-> Bytes(bb), data |-> data, dst |-> <<>>]
    /\ UNCHANGED <<bbHist, bbW, fetchVars, rateVars, optVars, pure>>

DoRead(k) ==
    /\ LET r == Read(bb, Stale(k)) IN
       /\ bb' = r.bb
       /\ bbOut' = [op |-> "Read", n |-> r.n, err |-> r.err,
                    before |-> Bytes(bb), data |-> Stale(k), dst |-> r.p]
    /\ UNCHANGED <<bbHist, bbW, fetchVars, rateVars, optVars, pure>>

DoReadFrom(data, chunk, eofWithData) ==
    /\ bb.len + Len(data) <= MaxBuf
    /\ LET r == ReadFrom(bb, [data |-> data, chunk |-> chunk,
                              eofWithData |-> eofWithData]) IN
       /\ bb' = r.bb
       /\ bbOut' = [op |-> "ReadFrom", n |-> r.n, err |-> r.err,
                    before |-> Bytes(bb), data |-> data, dst |-> <<>>]
    /\ UNCHANGED <<bbHist, bbW, fetchVars, rateVars, optVars, pure>>

NextBuf ==
    \/ \E data \in BytesUpTo(MaxData), spare \in 0..1 : DoWrite(data, spare)
    \/ \E k \in 0..MaxData : DoRead(k)
    \/ \E data \in BytesUpTo(MaxData), chunk \in 1..MaxData, e \in BOOLEAN :
           DoReadFrom(data, chunk, e)

SpecBuf == Init /\ [][NextBuf]_vars

\* ----------------------------------------------------------------- helpers
Range(seq) == {seq[i] : i \in 1..Len(seq)}
Min(a, b) == IF a < b THEN a ELSE b
Returned(c) == call[c].pc = "returned"
ReturnedOk(c) == Returned(c) /\ call[c].ret.err = NoErr
Batch(c) == call[c].ret.tasks.elems
NoRepeats(seq) == \A i, j \in 1..Len(seq) : seq[i] = seq[j] => i = j
Decodable(seq) == SelectSeq(seq, LAMBDA p : p.form = "json")
\* The values the decodable payloads of seq stand for, in the order of seq.
Decoded(seq) == [i \in 1..Len(Decodable(seq)) |-> Item(Decodable(seq)[i].id)]
\* How many elements of seq equal x.
Count(seq, x) == Cardinality({i \in 1..Len(seq) : seq[i] = x})

\* ------------------------------------------------------------------ claims
\* C1: for any Fetch calls running concurrently against the same queue key,
\* no raw payload is returned to more than one call (nor twice to one call),
\* and every payload a call receives was an element of the queue when that
\* call's pop executed.
C1_NoOverlapNoFabrication ==
    \A c \in Calls :
        /\ NoRepeats(call[c].raw)
        /\ Range(call[c].raw) \subseteq Range(call[c].snap)
        /\ \A d \in Calls \ {c} :
               Range(call[c].raw) \cap Range(call[d].raw) = {}

\* C1 witness: both calls are between their pop and their return at the same
\* time, and each pop returned payloads.
C1_Witness ==
    \A c \in Calls : call[c].pc = "replied" /\ call[c].raw # <<>>

\* The queue was pre-loaded with the payloads pre for calls c and d: c's pop
\* found all of them in the queue and no producer has pushed anything else.
Preloaded(c, pre) == call[c].executed /\ call[c].snap = pre /\ pushed[Queue] = pre

\* C2: for a queue pre-loaded with M decodable payloads, M no more than the
\* cap, once two concurrent Fetch calls have both returned successfully the
\* two batches together hold each of the M items exactly once and nothing
\* else, and the queue is empty.
C2_Partition ==
    \A c, d \in Calls :
        LET pre == pushed[Queue]
            both == Batch(c) \o Batch(d)
        IN (/\ c # d
            /\ ReturnedOk(c) /\ ReturnedOk(d)
            /\ Preloaded(c, pre)
            /\ Len(pre) <= maxTask
            /\ \A i \in 1..Len(pre) : pre[i].form = "json")
           => /\ \A i \in 1..Len(pre) : Count(both, Item(pre[i].id)) = 1
              /\ Len(both) = Len(pre)
              /\ store[Queue] = <<>>

\* C2 witness: both calls returned successfully with M = cap pre-loaded
\* decodable payloads.
C2_Witness ==
    \E c, d \in Calls :
        /\ c # d /\ ReturnedOk(c) /\ ReturnedOk(d)
        /\ Preloaded(c, pushed[Queue])
        /\ Len(pushed[Queue]) = maxTask
        /\ \A i \in 1..maxTask : pushed[Queue][i].form = "json"

\* C3: a successful Fetch on a queue holding decodable payloads [p1..pL],
\* L no more than the cap, returns exactly [decode(p1), ..., decode(pL)]; in
\* general the batch keeps the storage order of the payloads it popped (the
\* ids grow in the order the payloads were pushed).
C3_Fifo ==
    \A c \in Calls :
        ReturnedOk(c) =>
            /\ (/\ Len(call[c].snap) <= maxTask
                /\ \A i \in 1..Len(call[c].snap) : call[c].snap[i].form = "json")
               => Batch(c) = [i \in 1..Len(call[c].snap) |-> Item(call[c].snap[i].id)]
            /\ \A i, j \in 1..Len(Batch(c)) : i < j => Batch(c)[i].id < Batch(c)[j].id

\* C3 witness: a successful Fetch of a queue of cap decodable payloads.
C3_Witness ==
    \E c \in Calls :
        /\ ReturnedOk(c)
        /\ Len(call[c].snap) = maxTask
        /\ \A i \in 1..maxTask : call[c].snap[i].form = "json"
        /\ Len(Batch(c)) = maxTask

\* C4: decode failures are isolated: once the pop has succeeded, Fetch returns
\* a nil error and a batch made of the decoded values of exactly the decodable
\* payloads it popped, in their order (a malformed payload at any position is
\* dropped and the loop goes on), and every popped payload, malformed ones
\* included, is out of the queue.
C4_MalformedIsolated ==
    \A c \in Calls :
        (Returned(c) /\ call[c].runOk) =>
            /\ call[c].ret.err = NoErr
            /\ Batch(c) = Decoded(call[c].raw)
            /\ Range(call[c].raw) \cap Range(store[Queue]) = {}

\* C4 witness: a Fetch returned after popping a malformed payload followed by
\* a decodable one.
C4_Witness ==
    \E c \in Calls :
        /\ Returned(c) /\ call[c].runOk
        /\ Len(call[c].raw) = 2
        /\ call[c].raw[1].form = "text"
        /\ call[c].raw[2].form = "json"

\* C4 second witness case: the malformed payload is the last one popped.
C4_WitnessLast ==
    \E c \in Calls :
        /\ Returned(c) /\ call[c].runOk
        /\ Len(call[c].raw) = 2
        /\ call[c].raw[1].form = "json"
        /\ call[c].raw[2].form = "text"

\* The step in which the store executes the pop of call c.
PopStep(c) == ~call[c].executed /\ call'[c].executed

\* C5: a pop with cap maxTask on a queue holding L payloads removes exactly
\* min(maxTask, L) payloads from the head and leaves the other payloads in
\* the queue in their order; running out of payloads early is not an error.
C5_CapEnforced ==
    [][\A c \in Calls :
          PopStep(c) =>
              LET list == store[Queue]
                  m == Min(maxTask, Len(list))
              IN /\ call'[c].raw = SubSeq(list, 1, m)
                 /\ store'[Queue] = SubSeq(list, m + 1, Len(list))
                 /\ call'[c].pc = "replied"
                 /\ call'[c].runErr = NoErr]_vars

\* C5 witness: a pop has just removed cap payloads from a longer queue.
C5_Witness ==
    \E c \in Calls :
        /\ call[c].pc = "replied"
        /\ Len(call[c].snap) > maxTask
        /\ Len(call[c].raw) = maxTask
        /\ store[Queue] = SubSeq(call[c].snap, maxTask + 1, Len(call[c].snap))

\* C5 second witness case: the queue ran out before cap payloads were removed.
C5_WitnessShort ==
    \E c \in Calls :
        /\ call[c].pc = "replied"
        /\ Len(call[c].snap) = 1
        /\ call[c].raw = call[c].snap

\* C6: whenever the pop succeeds (Run gives a nil error), Fetch returns a
\* non-nil batch and a nil error; if the queue was empty or every popped
\* payload was malformed the batch is empty, not nil.
C6_EmptyNotNil ==
    \A c \in Calls :
        (Returned(c) /\ call[c].runOk) =>
            /\ call[c].ret.err = NoErr
            /\ ~call[c].ret.tasks.nil
            /\ (\A i \in 1..Len(call[c].raw) : call[c].raw[i].form = "text")
                   => call[c].ret.tasks = Slice(<<>>)

\* C6 witness: a Fetch returned after a pop of the empty queue.
C6_Witness ==
    \E c \in Calls :
        Returned(c) /\ call[c].runOk /\ call[c].snap = <<>> /\ call[c].raw = <<>>

\* C6 second witness case: every popped payload was malformed.
C6_WitnessAllMalformed ==
    \E c \in Calls :
        /\ Returned(c) /\ call[c].runOk
        /\ Len(call[c].raw) = maxTask
        /\ \A i \in 1..maxTask : call[c].raw[i].form = "text"

\* C7: Fetch called with a context that is already canceled returns a
\* cancellation error and no items, and its pop is never executed: the call
\* removes no payload.
C7_PreCanceled ==
    \A c \in Calls :
        (Returned(c) /\ call[c].preCanceled) =>
            /\ call[c].ret.err = ErrCanceled
            /\ call[c].ret.tasks.elems = <<>>
            /\ ~call[c].executed
            /\ call[c].raw = <<>>

\* C7 witness: a pre-canceled Fetch returned while the queue holds payloads.
C7_Witness ==
    \E c \in Calls :
        Returned(c) /\ call[c].preCanceled /\ store[Queue] # <<>>

\* C8: if the pop fails, Fetch returns a nil batch together with that very
\* error; Fetch never returns a non-empty batch together with an error.
C8_ErrorNoItems ==
    \A c \in Calls :
        Returned(c) =>
            /\ call[c].runErr # NoErr
                   => call[c].ret = [tasks |-> NilSlice, err |-> call[c].runErr]
            /\ ~(call[c].ret.err # NoErr /\ call[c].ret.tasks.elems # <<>>)

\* C8 witness: Fetch returned an error after the store had executed its pop
\* and removed payloads.
C8_Witness ==
    \E c \in Calls :
        /\ Returned(c) /\ call[c].runErr = ErrTransport
        /\ call[c].executed /\ call[c].raw # <<>>

\* C8 other witness cases: the store refused the command; the context was
\* canceled during the round trip.
C8_WitnessOperation ==
    \E c \in Calls : Returned(c) /\ call[c].runErr = ErrOperation

C8_WitnessCanceled ==
    \E c \in Calls :
        Returned(c) /\ call[c].runErr = ErrCanceled /\ ~call[c].preCanceled

\* The call c failed after the store had executed its pop.
LostBatch(c) == Returned(c) /\ call[c].executed /\ call[c].ret.err # NoErr

\* C9: delivery is at most once: the payloads removed by a pop whose call
\* then failed (cancellation or transport failure seen after the pop) are
\* not in the queue and are delivered to no call; and no payload is
\* delivered twice, to one call or to two.
C9_AtMostOnce ==
    /\ \A c \in Calls :
           LostBatch(c) =>
               \A p \in Range(call[c].raw) :
                   /\ p \notin Range(store[Queue])
                   /\ \A d \in Calls :
                          /\ Item(p.id) \notin Range(Batch(d))
                          /\ d # c => p \notin Range(call[d].raw)
    /\ \A c \in Calls :
           /\ NoRepeats(Batch(c))
           /\ \A d \in Calls \ {c} : Range(Batch(c)) \cap Range(Batch(d)) = {}

\* C9 witness: a call was canceled after its pop removed payloads, and a
\* later call popped younger payloads and delivered them.
C9_Witness ==
    \E c, d \in Calls :
        /\ LostBatch(c) /\ call[c].ret.err = ErrCanceled /\ call[c].raw # <<>>
        /\ ReturnedOk(d) /\ Batch(d) # <<>>
        /\ \A p \in Range(call[c].raw), q \in Range(call[d].snap) : p.id < q.id

\* C10: a raw item of the reply that is not a string is dropped like a
\* payload that fails to decode: the batch is the one Fetch returns for the
\* reply without its non-string items.
C10_NonStringDropped ==
    \A c \in Calls :
        (Returned(c) /\ call[c].runOk) =>
            call[c].ret = FetchResult(SelectSeq(call[c].raw, IsString), NoErr)

\* C11: a Fetch called with keys [k1, ..., kn] pops only from the queue named
\* k1: the step that executes its pop takes the reply from the head of k1
\* and leaves every other queue as it is, and no other step of a Fetch
\* changes a queue at all.
C11_OnlyFirstKey ==
    [][\A k \in Keys :
          /\ \A c \in Calls :
                 PopStep(c) =>
                     IF k = call[c].keys[1]
                     THEN call'[c].raw \o store'[k] = store[k]
                     ELSE store'[k] = store[k]
          /\ store'[k] # store[k] =>
                 \/ pushed'[k] # pushed[k]
                 \/ \E c \in Calls : PopStep(c) /\ call[c].keys[1] = k]_vars

\* C11 witness: a Fetch with keys [k1, k2] has popped the empty queue k1
\* while k2 holds payloads.
C11_Witness ==
    \E c \in Calls :
        /\ call[c].executed
        /\ call[c].keys = <<"k1", "k2">>
        /\ call[c].snap = <<>>
        /\ store["k2"] # <<>>

\* C11 second witness case: k1 was not empty and k2 holds payloads.
C11_WitnessBoth ==
    \E c \in Calls :
        /\ call[c].executed
        /\ call[c].keys = <<"k1", "k2">>
        /\ call[c].raw # <<>>
        /\ store["k2"] # <<>>

\* C12: ByteBuffer.Write(data) appends data to the buffer and returns
\* len(data) with a nil error, whatever the buffer already holds; afterwards
\* Len() has grown by len(data).
C12_WriteReturnsLenData ==
    bbOut.op = "Write" =>
        /\ Bytes(bb) = bbOut.before \o bbOut.data
        /\ bb.len = Len(bbOut.before) + Len(bbOut.data)
        /\ bbOut.n = Len(bbOut.data)
        /\ bbOut.err = NoErr

\* What does hold of Write: the data is appended and the new length of the
\* buffer is returned.
C12_WriteAppends ==
    bbOut.op = "Write" =>
        /\ Bytes(bb) = bbOut.before \o bbOut.data
        /\ bbOut.n = Len(bbOut.before) + Len(bbOut.data)
        /\ bbOut.err = NoErr

\* C13: ByteBuffer.Read on a buffer holding no bytes (never written, or
\* drained by earlier Reads) returns 0 and a non-nil error, writes nothing
\* into the destination and leaves the buffer empty.
C13_ReadEmpty ==
    (bbOut.op = "Read" /\ bbOut.before = <<>>) =>
        /\ bbOut.n = 0
        /\ bbOut.err # NoErr
        /\ bbOut.dst = bbOut.data
        /\ Bytes(bb) = <<>>

\* C13 witness: a Read into a non-empty destination from a buffer that was
\* written and then drained (its array is still there).
C13_Witness ==
    /\ bbOut.op = "Read" /\ bbOut.before = <<>>
    /\ bbOut.data # <<>>
    /\ bb.arr # <<>>

\* C13 second witness case: the buffer was never written.
C13_WitnessFresh ==
    bbOut.op = "Read" /\ bbOut.before = <<>> /\ bbOut.data # <<>> /\ bb.arr = <<>>

\* C14: ByteBuffer.ReadFrom(reader) returns the number of bytes read from
\* the reader with a nil error once the reader reports EOF, and the buffer
\* then holds its previous contents followed by the reader's bytes; for an
\* empty reader it returns 0 and leaves the contents unchanged.
C14_ReadFromCount ==
    bbOut.op = "ReadFrom" =>
        /\ bbOut.n = Len(bbOut.data)
        /\ bbOut.err = NoErr
        /\ Bytes(bb) = bbOut.before \o bbOut.data

\* What does hold of ReadFrom: the contents, and the count for a buffer that
\* was empty.
C14_ReadFromContents ==
    bbOut.op = "ReadFrom" =>
        /\ bbOut.err = NoErr
        /\ Bytes(bb) = bbOut.before \o bbOut.data
        /\ bbOut.n = Len(bbOut.before) + Len(bbOut.data)


(***************************************************************************)
(* http.RoundTripRateLimiterTransport (src/http/transport.go).             *)
(*                                                                         *)
(* Time is counted in ticks.  The limiter is the token bucket of           *)
(* golang.org/x/time/rate: rate.Every(limitPeriod) refills one token per   *)
(* limitPeriod and the bucket holds at most requestCount tokens.  Tokens   *)
(* are kept in units of 1/period of a token, so that one tick refills one  *)
(* unit and one request costs lim.period units.                            *)
(***************************************************************************)
MaxPeriod == 2      \* limitPeriod ranges over 1..MaxPeriod ticks
MaxBurst == 2       \* requestCount ranges over 0..MaxBurst
MaxStart == 2       \* RoundTrip is called at the times 0..MaxStart
MaxTimeout == 1     \* a context's deadline is at most this far ahead

ErrBurst == "rate: Wait(n=1) exceeds limiter's burst"
ErrDeadline == "context deadline exceeded"
ErrWouldExceed == "rate: Wait(n=1) would exceed context deadline"

NewLimiter_burstPlusOne(limitPeriod, requestCount) ==
    [limitPeriod |-> limitPeriod, requestCount |-> requestCount,
     period |-> limitPeriod, burst |-> requestCount + 1,
     tokens |-> (requestCount + 1) * limitPeriod, last |-> 0, lastEvent |-> 0]

\* rate.NewLimiter(rate.Every(limitPeriod), requestCount): the bucket is full
\* at the first use.  limitPeriod and requestCount record the arguments of
\* NewRoundTripRateLimiterTransport.
NewLimiter(limitPeriod, requestCount) ==
    [limitPeriod |-> limitPeriod, requestCount |-> requestCount,
     period |-> limitPeriod, burst |-> requestCount,
     tokens |-> requestCount * limitPeriod, last |-> 0, lastEvent |-> 0]

\* Limiter.advance: the tokens at time t, after the refill since lim.last.
advance(l, t) == Min(l.burst * l.period, l.tokens + (t - l.last))

\* ctx.Done() is closed: the context was canceled or its deadline has passed.
CtxDone(q, t) ==
    \/ q.canceled
    \/ q.ctx.kind = "deadline" /\ q.ctx.deadline <= t
CtxErr(q) == IF q.canceled THEN ErrCanceled ELSE ErrDeadline

\* Limiter.reserveN(t, 1, waitLimit) for a context ctx: the reservation and
\* the limiter after it.
reserveN(l, t, ctx) ==
    LET tokens == advance(l, t) - l.period
        waitDuration == IF tokens < 0 THEN 0 - tokens ELSE 0
        ok == /\ 1 <= l.burst
              /\ ctx.kind = "deadline" => waitDuration <= ctx.deadline - t
    IN  [ok |-> ok, timeToAct |-> t + waitDuration,
         lim |-> IF ok
                 THEN [l EXCEPT !.tokens = tokens, !.last = t,
                                !.lastEvent = t + waitDuration]
                 ELSE l]

\* Reservation.CancelAt(t): gives back the token of a reservation that has
\* not fallen due, less what later reservations were granted on top of it.
CancelAt(l, timeToAct, t) ==
    LET restoreTokens == l.period - (l.lastEvent - timeToAct)
        prevEvent == timeToAct - l.period
    IN  IF timeToAct < t \/ restoreTokens <= 0
        THEN l
        ELSE [l EXCEPT !.tokens = Min(l.burst * l.period,
                                      advance(l, t) + restoreTokens),
                       !.last = t,
                       !.lastEvent = IF timeToAct = l.lastEvent /\ prevEvent >= t
                                     THEN prevEvent ELSE @]

\* RoundTrip after Wait returned waitErr, at time t: an error of Wait is
\* returned with a nil response; otherwise the wrapped transport is called.
RoundTrip_ignoreWaitErr(q, waitErr, t) ==
    [q EXCEPT !.pc = "done", !.waitErr = waitErr,
              !.forwardedAt = Append(@, t), !.resp = "200", !.err = NoErr]

RoundTrip(q, waitErr, t) ==
    IF waitErr # NoErr
    THEN [q EXCEPT !.pc = "done", !.waitErr = waitErr,
                   !.resp = "nil", !.err = waitErr]
    ELSE [q EXCEPT !.pc = "done", !.waitErr = NoErr,
                   !.forwardedAt = Append(@, t), !.resp = "200", !.err = NoErr]

\* The contexts a request is sent with at time t.
Contexts(t) ==
    {[kind |-> "background", deadline |-> 0], [kind |-> "cancel", deadline |-> 0]}
    \cup {[kind |-> "deadline", deadline |-> t + d] : d \in 0..MaxTimeout}

\* RoundTrip(req) is called at the time now with a context; preCanceled says
\* that the caller canceled the context before the call.  Limiter.Wait
\* refuses at once when the burst is zero, the context is done, or the token
\* would come after the deadline; it returns at once when a token is there;
\* otherwise it sleeps until timeToAct.
RoundTripStart(r, ctx, preCanceled) ==
    /\ req[r].pc = "idle"
    /\ now <= MaxStart
    /\ preCanceled => ctx.kind = "cancel"
    /\ LET q == [req[r] EXCEPT !.ctx = ctx, !.canceled = preCanceled]
           res == reserveN(lim, now, ctx)
       IN  IF 1 > lim.burst
           THEN /\ req' = [req EXCEPT ![r] = RoundTrip(q, ErrBurst, now)]
                /\ lim' = lim
           ELSE IF CtxDone(q, now)
           THEN /\ req' = [req EXCEPT ![r] = RoundTrip(q, CtxErr(q), now)]
                /\ lim' = lim
           ELSE IF ~res.ok
           THEN /\ req' = [req EXCEPT ![r] = RoundTrip(q, ErrWouldExceed, now)]
                /\ lim' = lim
           ELSE IF res.timeToAct = now
           THEN /\ req' = [req EXCEPT ![r] = RoundTrip(q, NoErr, now)]
                /\ lim' = res.lim
           ELSE /\ req' = [req EXCEPT ![r] = [q EXCEPT !.pc = "waiting",
                                                   !.timeToAct = res.timeToAct]]
                /\ lim' = res.lim
    /\ UNCHANGED <<now, fetchVars, bufVars, optVars, pure>>

TimerFires_lost(r) ==
    /\ req[r].pc = "waiting"
    /\ req[r].timeToAct < now
    /\ req' = [req EXCEPT ![r] = RoundTrip(@, NoErr, now)]
    /\ UNCHANGED <<lim, now, fetchVars, bufVars, optVars, pure>>

\* The timer of a sleeping Wait fires: Wait returns nil and RoundTrip goes on.
TimerFires(r) ==
    /\ req[r].pc = "waiting"
    /\ req[r].timeToAct <= now
    /\ req' = [req EXCEPT ![r] = RoundTrip(@, NoErr, now)]
    /\ UNCHANGED <<lim, now, fetchVars, bufVars, optVars, pure>>

\* The context of a sleeping Wait is done (the caller cancels it, or its
\* deadline is reached): Wait cancels its reservation and returns ctx.Err().
\* When the timer is due as well, the select takes either case.
DoneObserved(r) ==
    /\ req[r].pc = "waiting"
    /\ \/ req[r].ctx.kind = "cancel"
       \/ CtxDone(req[r], now)
    /\ LET q == [req[r] EXCEPT !.canceled = (req[r].ctx.kind = "cancel")]
       IN  req' = [req EXCEPT ![r] = RoundTrip(q, CtxErr(q), now)]
    /\ lim' = CancelAt(lim, req[r].timeToAct, now)
    /\ UNCHANGED <<now, fetchVars, bufVars, optVars, pure>>

\* Time passes, but not past a timer that is due.
Tick ==
    /\ now < MaxStart \/ \E r \in Reqs : req[r].pc = "waiting"
    /\ \A r \in Reqs : req[r].pc = "waiting" => req[r].timeToAct > now
    /\ now' = now + 1
    /\ UNCHANGED <<lim, req, fetchVars, bufVars, optVars, pure>>

\* NewRoundTripRateLimiterTransport(limitPeriod, requestCount, wrapped).
InitRate ==
    /\ FetchIdle /\ BufIdle /\ OptIdle /\ PureIdle
    /\ \E limitPeriod \in 1..MaxPeriod, requestCount \in 0..MaxBurst :
           lim = NewLimiter(limitPeriod, requestCount)
    /\ now = 0
    /\ req = [r \in Reqs |-> IdleReq]

NextRate ==
    \/ Tick
    \/ \E r \in Reqs :
           \/ \E ctx \in Contexts(now), preCanceled \in BOOLEAN :
                  RoundTripStart(r, ctx, preCanceled)
           \/ TimerFires(r)
           \/ DoneObserved(r)

SpecRate == InitRate /\ [][NextRate]_vars

\* The scheduler runs timers that are due and time does not stop.
SpecRateFair ==
    SpecRate /\ WF_vars(Tick) /\ \A r \in Reqs : WF_vars(TimerFires(r))

\* The word of request r is out: RoundTrip has returned.
Done(r) == req[r].pc = "done"
\* The number of requests handed to the wrapped transport at the times t..u.
ForwardedIn(t, u) ==
    Cardinality({r \in Reqs : \E i \in 1..Len(req[r].forwardedAt) :
                                  req[r].forwardedAt[i] \in t..u})

\* C15: a request reaches the wrapped transport only after Wait succeeded;
\* when Wait fails, RoundTrip returns a nil response and Wait's error and
\* the wrapped transport has not been called.
C15_ForwardOnlyAfterWait ==
    \A r \in Reqs :
        /\ req[r].forwardedAt # <<>> => Done(r) /\ req[r].waitErr = NoErr
        /\ Done(r) /\ req[r].waitErr # NoErr =>
               /\ req[r].resp = "nil"
               /\ req[r].err = req[r].waitErr
               /\ req[r].forwardedAt = <<>>

\* A pre-canceled request was refused while another was forwarded.
C15_Witness ==
    \E r, o \in Reqs :
        /\ Done(r) /\ req[r].waitErr = ErrCanceled /\ req[r].forwardedAt = <<>>
        /\ Done(o) /\ req[o].forwardedAt # <<>>

\* A deadline that comes before the token: refused without sleeping.
C15_WitnessDeadline ==
    \E r \in Reqs :
        Done(r) /\ req[r].waitErr = ErrWouldExceed /\ req[r].forwardedAt = <<>>

NeverCanceled(r) == req[r].pc # "idle" /\ req[r].ctx.kind = "background"
\* Request r was handed to the wrapped transport once and its response was
\* returned without an error.
ForwardedOnce(r) ==
    /\ Done(r)
    /\ Len(req[r].forwardedAt) = 1
    /\ req[r].resp = "200"
    /\ req[r].err = NoErr

\* C17, as stated: every request whose context is never canceled ends
\* forwarded once and answered without error.  A transport built with
\* requestCount = 0 refuses every request.
C17_NeverCanceledForwarded ==
    \A r \in Reqs : NeverCanceled(r) /\ Done(r) => ForwardedOnce(r)

\* C17, amended: through a transport built with requestCount >= 1, a
\* request whose context is never canceled is never refused and never
\* forwarded twice, and one that sleeps in Wait is eventually forwarded
\* once and answered without error.
C17_EventuallyForwarded ==
    /\ [](lim.requestCount >= 1 =>
              \A r \in Reqs :
                  /\ NeverCanceled(r) /\ Done(r) => ForwardedOnce(r)
                  /\ Len(req[r].forwardedAt) <= 1)
    /\ \A r \in Reqs :
           (lim.requestCount >= 1 /\ NeverCanceled(r)) ~> ForwardedOnce(r)

\* Three never-canceled requests went through a transport of burst one:
\* two of them slept, and all three were forwarded at different times.
C17_Witness ==
    /\ lim.requestCount = 1
    /\ \A r \in Reqs : NeverCanceled(r) /\ ForwardedOnce(r)
    /\ \A r, o \in Reqs : r # o => req[r].forwardedAt # req[o].forwardedAt


(***************************************************************************)
(* cmd.Options (src/cmd/options.go).                                       *)
(***************************************************************************)
Ctxs == {"nil", "ctx1", "ctx2"}
ErrNilContext == "context cannot be nil"
ErrChanEmpty == "chan is empty"
ErrChanClose == "chan is close"

\* case <-doneCh of a select with a default: the receive is ready when the
\* channel holds a pending value, which it takes, or when the channel is
\* closed.
RecvReady(c) == c.pending > 0 \/ c.closed
Recv(c) == IF c.pending > 0 THEN [c EXCEPT !.pending = @ - 1] ELSE c

\* Options.SetContext(ctx): the Options and the error it returns.
SetContext(o, ctx) ==
    IF ctx = "nil"
    THEN [opts |-> o, err |-> ErrNilContext]
    ELSE [opts |-> [o EXCEPT !.ctx = ctx], err |-> NoErr]

\* Options.SetDoneChannel(doneCh): the Options, the channels and the error
\* it returns.
SetDoneChannel(o, cs, doneCh) ==
    IF doneCh = NilChan
    THEN [opts |-> o, chans |-> cs, err |-> ErrChanEmpty]
    ELSE IF RecvReady(cs[doneCh])
    THEN [opts |-> o, chans |-> [cs EXCEPT ![doneCh] = Recv(@)],
          err |-> ErrChanClose]
    ELSE [opts |-> [o EXCEPT !.doneCh = doneCh], chans |-> cs, err |-> NoErr]

\* A goroutine sends on an open channel that has room.
Send(ch) ==
    /\ ~chans[ch].closed
    /\ chans[ch].pending < chans[ch].cap
    /\ chans' = [chans EXCEPT ![ch].pending = @ + 1]
    /\ UNCHANGED <<opts, optOut, fetchVars, bufVars, rateVars, pure>>

\* A goroutine closes an open channel.
Close(ch) ==
    /\ ~chans[ch].closed
    /\ chans' = [chans EXCEPT ![ch].closed = TRUE]
    /\ UNCHANGED <<opts, optOut, fetchVars, bufVars, rateVars, pure>>

DoSetContext(ctx) ==
    /\ LET res == SetContext(opts, ctx)
       IN  /\ opts' = res.opts
           /\ optOut' = [op |-> "SetContext", arg |-> ctx, err |-> res.err,
                         before |-> opts, chansBefore |-> chans]
    /\ UNCHANGED <<chans, fetchVars, bufVars, rateVars, pure>>

DoSetDoneChannel(doneCh) ==
    /\ LET res == SetDoneChannel(opts, chans, doneCh)
       IN  /\ opts' = res.opts
           /\ chans' = res.chans
           /\ optOut' = [op |-> "SetDoneChannel", arg |-> doneCh,
                         err |-> res.err, before |-> opts,
                         chansBefore |-> chans]
    /\ UNCHANGED <<fetchVars, bufVars, rateVars, pure>>

NextOpt ==
    \/ \E ch \in Chans : Send(ch) \/ Close(ch)
    \/ \E ctx \in Ctxs : DoSetContext(ctx)
    \/ \E doneCh \in Chans \cup {NilChan} : DoSetDoneChannel(doneCh)

SpecOpt == Init /\ [][NextOpt]_vars

\* The channel given to the last SetDoneChannel was nil or already closed.
NilOrClosed ==
    \/ optOut.arg = NilChan
    \/ optOut.chansBefore[optOut.arg].closed

\* C18: SetDoneChannel returns an error and leaves doneCh as it was exactly
\* when the channel is nil or already closed; a non-nil channel that is
\* still open is stored and nil is returned.
C18_ErrorIffNilOrClosed ==
    optOut.op = "SetDoneChannel" =>
        IF NilOrClosed
        THEN optOut.err # NoErr /\ opts.doneCh = optOut.before.doneCh
        ELSE optOut.err = NoErr /\ opts.doneCh = optOut.arg

\* What the code does keep of C18: a nil or closed channel is refused, every
\* refusal leaves doneCh as it was, and an open channel with nothing
\* pending is stored.
C18_RefusalLeavesDoneCh ==
    optOut.op = "SetDoneChannel" =>
        /\ NilOrClosed => optOut.err # NoErr
        /\ optOut.err # NoErr => opts.doneCh = optOut.before.doneCh
        /\ optOut.err = NoErr => opts.doneCh = optOut.arg
        /\ (~NilOrClosed /\ optOut.chansBefore[optOut.arg].pending = 0)
               => optOut.err = NoErr


(***************************************************************************)
(* slices.Contains (src/unnamed/part_003).                                 *)
(*                                                                         *)
(* T ranges over constraints.Ordered, which holds the floating-point       *)
(* types: a value is a number 1..MaxVal or NaN, and every comparison with  *)
(* NaN is false.                                                           *)
(***************************************************************************)
MaxVal == 2        \* the numbers are 1..MaxVal
MaxSlice == 3      \* slices hold up to MaxSlice elements

NaN == [nan |-> TRUE, v |-> 0]
Num(n) == [nan |-> FALSE, v |-> n]
Values == {Num(n) : n \in 1..MaxVal} \cup {NaN}
SlicesOf(S) ==
    {NilSlice} \cup
    {Slice(e) : e \in UNION {[1..n -> S] : n \in 0..MaxSlice}}

\* The operators <, >= and == of T.
Less(x, y) == ~x.nan /\ ~y.nan /\ x.v < y.v
GreaterEq(x, y) == ~x.nan /\ ~y.nan /\ x.v >= y.v
Equal(x, y) == ~x.nan /\ ~y.nan /\ x.v = y.v

Swap(data, i, j) == [data EXCEPT ![i] = data[j], ![j] = data[i]]

\* sort.Slice(data, less) for a slice of fewer than 12 elements: an
\* insertion sort.
RECURSIVE insertionSortInner(_, _)
insertionSortInner(data, j) ==
    IF j > 1 /\ Less(data[j], data[j - 1])
    THEN insertionSortInner(Swap(data, j, j - 1), j - 1)
    ELSE data

RECURSIVE insertionSort(_, _)
insertionSort(data, i) ==
    IF i > Len(data)
    THEN data
    ELSE insertionSort(insertionSortInner(data, i), i + 1)

SortSlice(data) == insertionSort(data, 2)

\* sort.Search(n, f) with f(i) = copiedElements[i] >= element: a binary
\* search over the indices i..j-1 (here from 1).
RECURSIVE Search(_, _, _, _)
Search(copiedElements, element, i, j) ==
    IF i < j
    THEN LET h == (i + j) \div 2
         IN  IF ~GreaterEq(copiedElements[h], element)
             THEN Search(copiedElements, element, h + 1, j)
             ELSE Search(copiedElements, element, i, h)
    ELSE i

\* Contains(elements, element): its result, and the caller's slice after
\* the call.
Contains(elements, element) ==
    IF elements.nil
    THEN [result |-> FALSE, elements |-> elements]
    ELSE LET copiedElements == SortSlice(elements.elems)
             n == Len(copiedElements)
             index == Search(copiedElements, element, 1, n + 1)
         IN  [result |-> index < n + 1 /\ Equal(copiedElements[index], element),
              elements |-> elements]

InitContains ==
    /\ FetchIdle /\ BufIdle /\ RateIdle /\ OptIdle
    /\ pure \in [op : {"Contains"}, elements : SlicesOf(Values),
                 element : Values, done : {FALSE},
                 result : {FALSE}, after : {NilSlice}]

DoContains ==
    /\ pure.op = "Contains"
    /\ ~pure.done
    /\ LET res == Contains(pure.elements, pure.element)
       IN  pure' = [pure EXCEPT !.done = TRUE, !.result = res.result,
                                !.after = res.elements]
    /\ UNCHANGED <<fetchVars, bufVars, rateVars, optVars>>

NextContains == DoContains

SpecContains == InitContains /\ [][NextContains]_vars

\* Some elements[i] == element.
Member(elements, element) ==
    \E i \in 1..Len(elements.elems) : Equal(elements.elems[i], element)
HasNaN(elements) == \E i \in 1..Len(elements.elems) : elements.elems[i].nan

\* C19: Contains returns true exactly when some elements[i] equals element,
\* and the caller's slice is as it was.
C19_ContainsIffMember ==
    pure.op = "Contains" /\ pure.done =>
        /\ pure.result <=> Member(pure.elements, pure.element)
        /\ pure.after = pure.elements

\* What the code does keep of C19: it never reports an element that is not
\* there, it finds every element of a slice without NaN, and the caller's
\* slice is as it was.
C19_ContainsWithoutNaN ==
    pure.op = "Contains" /\ pure.done =>
        /\ pure.result => Member(pure.elements, pure.element)
        /\ ~HasNaN(pure.elements) =>
               (pure.result <=> Member(pure.elements, pure.element))
        /\ pure.after = pure.elements


(***************************************************************************)
(* string.SplitStringWithWidthConstraints (src/string/strings.go).         *)
(*                                                                         *)
(* A string is the sequence of its runes.                                  *)
(***************************************************************************)
MaxStr == 5          \* str holds up to MaxStr runes
MaxWidth == 3        \* maxWidth ranges over -1..MaxWidth
MaxOverflow == 1     \* overflowWidth ranges over 0..MaxOverflow

Runes == {"a", "b", " "}
Strings == UNION {[1..n -> Runes] : n \in 0..MaxStr}

\* utf8.RuneCountInString(s).
RuneCount(s) == Len(s)

\* strings.Fields(s): the maximal runs of non-space runes of s, in order;
\* word is the run being read.
RECURSIVE FieldsFrom(_, _)
FieldsFrom(s, word) ==
    IF s = <<>>
    THEN IF word = <<>> THEN <<>> ELSE <<word>>
    ELSE IF Head(s) = " "
    THEN (IF word = <<>> THEN <<>> ELSE <<word>>) \o FieldsFrom(Tail(s), <<>>)
    ELSE FieldsFrom(Tail(s), Append(word, Head(s)))

Fields(s) == FieldsFrom(s, <<>>)

\* strings.Join(chunk, " ").
RECURSIVE Join(_)
Join(chunk) ==
    IF chunk = <<>> THEN <<>>
    ELSE IF Len(chunk) = 1 THEN chunk[1]
    ELSE chunk[1] \o <<" ">> \o Join(Tail(chunk))

\* The loop over the words: chunks are the chunks so far, the last of them
\* the current one, and charCount the runes of the words of the current
\* chunk.
RECURSIVE SplitLoop_lateBreak(_, _, _, _)
SplitLoop_lateBreak(words, chunks, charCount, limit) ==
    IF words = <<>>
    THEN chunks
    ELSE LET word == Head(words)
             wordLength == RuneCount(word)
             next == charCount > limit /\ Len(chunks[Len(chunks)]) > 0
             chunks1 == IF next THEN Append(chunks, <<>>) ELSE chunks
             charCount1 == IF next THEN 0 ELSE charCount
         IN  SplitLoop_lateBreak(Tail(words),
                       [chunks1 EXCEPT ![Len(chunks1)] = Append(@, word)],
                       charCount1 + wordLength, limit)

RECURSIVE SplitLoop(_, _, _, _)
SplitLoop(words, chunks, charCount, limit) ==
    IF words = <<>>
    THEN chunks
    ELSE LET word == Head(words)
             wordLength == RuneCount(word)
             next == /\ charCount + wordLength > limit
                     /\ Len(chunks[Len(chunks)]) > 0
             chunks1 == IF next THEN Append(chunks, <<>>) ELSE chunks
             charCount1 == IF next THEN 0 ELSE charCount
         IN  SplitLoop(Tail(words),
                       [chunks1 EXCEPT ![Len(chunks1)] = Append(@, word)],
                       charCount1 + wordLength, limit)

\* SplitStringWithWidthConstraints(str, maxWidth, overflowWidth).
SplitStringWithWidthConstraints(str, maxWidth, overflowWidth) ==
    LET width == IF maxWidth < 0 THEN 0 ELSE maxWidth
    IN  IF RuneCount(str) < width + overflowWidth
        THEN <<str>>
        ELSE LET chunks == SplitLoop(Fields(str), <<<<>>>>, 0,
                                     width + overflowWidth)
             IN  [i \in 1..Len(chunks) |-> Join(chunks[i])]

InitSplit ==
    /\ FetchIdle /\ BufIdle /\ RateIdle /\ OptIdle
    /\ pure \in [op : {"Split"}, str : Strings, maxWidth : -1..MaxWidth,
                 overflowWidth : 0..MaxOverflow, done : {FALSE},
                 result : {<<>>}]

DoSplit ==
    /\ pure.op = "Split"
    /\ ~pure.done
    /\ pure' = [pure EXCEPT
                   !.done = TRUE,
                   !.result = SplitStringWithWidthConstraints(
                                  pure.str, pure.maxWidth, pure.overflowWidth)]
    /\ UNCHANGED <<fetchVars, bufVars, rateVars, optVars>>

NextSplit == DoSplit

SpecSplit == InitSplit /\ [][NextSplit]_vars

\* The words of the segments, read in order.
RECURSIVE WordsOf(_)
WordsOf(segments) ==
    IF segments = <<>> THEN <<>>
    ELSE Fields(Head(segments)) \o WordsOf(Tail(segments))
\* The runes of the words of a segment, joining spaces not counted.
RECURSIVE SumLen(_)
SumLen(words) ==
    IF words = <<>> THEN 0 ELSE RuneCount(Head(words)) + SumLen(Tail(words))
SplitDone == pure.op = "Split" /\ pure.done
\* No word is broken and the words are those of str, in order.
WordsKept == WordsOf(pure.result) = Fields(pure.str)

RECURSIVE InReplies(_, _)
InReplies(p, cs) ==
    IF cs = {} THEN 0
    ELSE LET c == CHOOSE x \in cs : TRUE
         IN  Count(call[c].raw, p) + InReplies(p, cs \ {c})
Places(p) == Count(store[Queue], p) + InReplies(p, Calls)

\* C21: with producers appending while any number of Fetch calls run, every
\* payload ever appended is in exactly one place: still in the queue, or
\* removed by exactly one pop.
C21_ExactlyOnePlace ==
    \A i \in 1..Len(pushed[Queue]) : Places(pushed[Queue][i]) = 1

\* C21 witness: a producer appended between the pops of two calls and after
\* them; both pops removed payloads and the queue holds one more.
C21_Witness ==
    \E c, d \in Calls :
        /\ c # d
        /\ call[c].executed /\ call[c].raw # <<>>
        /\ call[d].executed /\ call[d].raw # <<>>
        /\ \E q \in Range(call[d].raw) : q \notin Range(call[c].snap)
        /\ store[Queue] # <<>>

\* The popped payloads that are strings but no JSON of T.
Malformed(seq) == SelectSeq(seq, LAMBDA p : p.form = "text")

\* C22: the batch of a successful Fetch is no longer than the cap and no
\* longer than what the call popped, and its length is the number popped
\* less the number of malformed payloads among them.
C22_BatchLength ==
    \A c \in Calls :
        ReturnedOk(c) =>
            /\ Len(Batch(c)) <= maxTask
            /\ Len(Batch(c)) <= Len(call[c].raw)
            /\ Len(Batch(c)) = Len(call[c].raw) - Len(Malformed(call[c].raw))

\* C22 witness: a Fetch popped cap payloads, one of them malformed, and
\* returned the others.
C22_Witness ==
    \E c \in Calls :
        /\ ReturnedOk(c)
        /\ Len(call[c].raw) = maxTask
        /\ Len(Malformed(call[c].raw)) = 1
        /\ Len(Batch(c)) = maxTask - 1

\* C23: a call's pop is executed at most once: once the store has executed
\* it, no later step gives the call another reply, whatever error comes,
\* and a call that has returned does nothing more; the one reply holds at
\* most cap payloads.
C23_PopAtMostOnce ==
    [][\A c \in Calls :
          /\ call[c].executed =>
                 /\ call'[c].executed
                 /\ call'[c].raw = call[c].raw
                 /\ call'[c].snap = call[c].snap
                 /\ call'[c].pc # "inflight"
          /\ Returned(c) => call'[c] = call[c]
          /\ Len(call'[c].raw) <= maxTask]_vars

\* C23 witness: a call returned a transport error after its pop, and
\* payloads that another pop could take are still in the queue.
C23_Witness ==
    \E c \in Calls :
        /\ Returned(c) /\ call[c].executed
        /\ call[c].ret.err = ErrTransport
        /\ Len(call[c].raw) = maxTask
        /\ store[Queue] # <<>>

\* C23 other witness cases: the store refused the command; the context was
\* canceled during the round trip, after the pop.
C23_WitnessOperation ==
    \E c \in Calls :
        Returned(c) /\ call[c].ret.err = ErrOperation /\ store[Queue] # <<>>

C23_WitnessCanceled ==
    \E c \in Calls :
        /\ Returned(c) /\ call[c].executed /\ call[c].ret.err = ErrCanceled
        /\ store[Queue] # <<>>

\* C24: once the round trip has returned successfully, a cancellation of
\* the context changes nothing: the call stays in its loop until it returns
\* the whole decoded batch with a nil error.
C24_DecodeIgnoresCancel ==
    [][\A c \in Calls :
          call[c].pc = "decoding" =>
              /\ call'[c].pc \in {"decoding", "returned"}
              /\ call'[c].raw = call[c].raw
              /\ call'[c].pc = "returned" =>
                     call'[c].ret = [tasks |-> Slice(Decoded(call[c].raw)),
                                     err |-> NoErr]]_vars

\* C24 witness: a call whose context was canceled after the command was
\* sent returned a batch with a nil error.
C24_Witness ==
    \E c \in Calls :
        /\ ReturnedOk(c) /\ call[c].canceled /\ ~call[c].preCanceled
        /\ Len(Batch(c)) = maxTask

\* C24 witness: the context is canceled while the call decodes its reply.
C24_WitnessDecoding ==
    \E c \in Calls :
        call[c].pc = "decoding" /\ call[c].canceled /\ call[c].raw # <<>>

\* C25: the payloads a pop removes are a contiguous run from the head of the
\* queue as it is when the pop executes; in the order of the appends nothing
\* lies between two payloads of one reply.
C25_ContiguousFromHead ==
    \A c \in Calls :
        /\ call[c].raw = SubSeq(call[c].snap, 1, Len(call[c].raw))
        /\ \A i \in 1..(Len(call[c].raw) - 1) :
               call[c].raw[i + 1].id = call[c].raw[i].id + 1

\* C25 witness: the second pop took a payload that was in the queue at the
\* first pop and, next to it, one that a producer appended after the first.
C25_Witness ==
    \E c, d \in Calls :
        /\ c # d
        /\ Len(call[c].raw) = maxTask
        /\ Len(call[d].raw) > 1
        /\ call[d].raw[1] \in Range(call[c].snap)
        /\ call[d].raw[Len(call[d].raw)] \notin Range(call[c].snap)

\* C26: the fetcher keeps nothing between calls: a successful call returns
\* the decoded head of the queue as its pop found it, whatever other calls
\* did or do, failed and canceled ones included.
C26_Stateless ==
    \A c \in Calls :
        ReturnedOk(c) =>
            call[c].ret =
                [tasks |-> Slice(Decoded(SubSeq(call[c].snap, 1,
                                     Min(maxTask, Len(call[c].snap))))),
                 err |-> NoErr]

\* C26 witness: a call failed after its pop had removed payloads, and
\* another call then popped and returned younger payloads.
C26_Witness ==
    \E c, d \in Calls :
        /\ Returned(c) /\ call[c].ret.err = ErrTransport /\ call[c].raw # <<>>
        /\ ReturnedOk(d) /\ Batch(d) # <<>>
        /\ \A p \in Range(call[c].raw), q \in Range(call[d].raw) : p.id < q.id

\* C26 witness: the earlier call was canceled.
C26_WitnessCanceled ==
    \E c, d \in Calls :
        /\ Returned(c) /\ call[c].ret.err = ErrCanceled /\ call[c].preCanceled
        /\ ReturnedOk(d) /\ Batch(d) # <<>>

\* The caller of a Fetch that has returned calls Fetch again.
Again(c) ==
    /\ Returned(c)
    /\ call' = [call EXCEPT ![c] = IdleCall]
    /\ UNCHANGED <<store, pushed, nextId, others>>

\* The steps of a caller that fetches again and again and whose calls
\* succeed.
Fetching(c) ==
    \/ FetchCall(c, <<Queue>>)
    \/ Dispatch(c)
    \/ StoreExec(c)
    \/ RunReturns(c)
    \/ FetchDecode(c)
    \/ Again(c)

\* Producers append up to MaxItems payloads and then stop; the callers keep
\* fetching and every call succeeds.
NextDrain ==
    \/ \E form \in Forms : RPush(Queue, form)
    \/ \E c \in Calls : Fetching(c)

SpecDrain == Init /\ [][NextDrain]_vars

\* Fetching goes on: weak fairness on the callers' steps.
SpecDrainFair == SpecDrain /\ WF_vars(\E c \in Calls : Fetching(c))

\* ceil(L / cap): the successful fetches it takes to empty L payloads.
FetchesFor(L) == (L + maxTask - 1) \div maxTask

\* C27: once the producers have stopped, the queue becomes empty and stays
\* empty; every pop removes at most cap payloads and brings the number of
\* fetches that the queue still needs, ceil(L / cap), down by one, so L
\* payloads are gone after ceil(L / cap) successful fetches.
C27_QueueDrains ==
    /\ <>[](store[Queue] = <<>>)
    /\ [][\A c \in Calls :
             PopStep(c) =>
                 /\ Len(call'[c].raw) <= maxTask
                 /\ Len(store[Queue]) > 0 =>
                        FetchesFor(Len(store'[Queue]))
                            = FetchesFor(Len(store[Queue])) - 1]_vars

\* C27 witness: the producers pushed all they had, and two pops, the first
\* of a queue longer than the cap, emptied the queue.
C27_Witness ==
    \E c, d \in Calls :
        /\ c # d
        /\ nextId > MaxItems
        /\ Len(call[c].snap) > maxTask
        /\ call[c].raw \o call[d].raw = call[c].snap
        /\ call[d].raw # <<>>
        /\ store[Queue] = <<>>


(***************************************************************************)
(* ByteBuffer again: the history of its Writes and Reads, and Writes by    *)
(* several goroutines.                                                     *)
(***************************************************************************)
MaxWritten == 4      \* the bytes written in all, in SpecBufHist

\* Write(data), with the bytes written added to the history.
WriteLogged(data, spare) ==
    /\ Len(bbHist.written) + Len(data) <= MaxWritten
    /\ LET r == Write(bb, data, spare) IN
       /\ bb' = r.bb
       /\ bbOut' = [op |-> "Write", n |-> r.n, err |-> r.err,
                    before |-> Bytes(bb), data |-> data, dst |-> <<>>]
    /\ bbHist' = [bbHist EXCEPT !.written = @ \o data]
    /\ UNCHANGED <<bbW, fetchVars, rateVars, optVars, pure>>

\* Read(p) with len(p) = k; the bytes a successful Read hands out, p[:n],
\* are added to the history.
ReadLogged(k) ==
    /\ LET r == Read(bb, Stale(k)) IN
       /\ bb' = r.bb
       /\ bbOut' = [op |-> "Read", n |-> r.n, err |-> r.err,
                    before |-> Bytes(bb), data |-> Stale(k), dst |-> r.p]
       /\ bbHist' = IF r.err = NoErr
                    THEN [bbHist EXCEPT !.read = @ \o SubSeq(r.p, 1, r.n)]
                    ELSE bbHist
    /\ UNCHANGED <<bbW, fetchVars, rateVars, optVars, pure>>

NextBufHist ==
    \/ \E data \in BytesUpTo(MaxData), spare \in 0..1 : WriteLogged(data, spare)
    \/ \E k \in 0..MaxData : ReadLogged(k)

SpecBufHist == Init /\ [][NextBufHist]_vars

\* C28: the bytes read, in call order, followed by the bytes the buffer
\* holds are the bytes written, in call order: the bytes read are a prefix
\* of the bytes written and Len() is written minus read; a Read of k bytes
\* from a buffer that holds n > 0 returns the first min(k, n) of them.
C28_ReadsArePrefix ==
    /\ bbHist.written = bbHist.read \o Bytes(bb)
    /\ bb.len = Len(bbHist.written) - Len(bbHist.read)
    /\ (bbOut.op = "Read" /\ Len(bbOut.before) > 0) =>
           /\ bbOut.err = NoErr
           /\ bbOut.n = Min(Len(bbOut.data), Len(bbOut.before))
           /\ SubSeq(bbOut.dst, 1, bbOut.n) = SubSeq(bbOut.before, 1, bbOut.n)

\* C28 witness: a Write after Reads; part of what was written has been
\* read and part is in the buffer.
C28_Witness ==
    /\ bbOut.op = "Write" /\ bbOut.data # <<>>
    /\ Len(bbHist.written) = MaxWritten
    /\ bbHist.read # <<>>
    /\ bb.len > Len(bbOut.data)

\* C28 witness cases: a Read into a destination longer than the content,
\* and into a shorter one.
C28_WitnessLongDst ==
    /\ bbOut.op = "Read" /\ bbOut.err = NoErr
    /\ Len(bbOut.data) > Len(bbOut.before)
    /\ bbHist.read # SubSeq(bbOut.dst, 1, bbOut.n)

C28_WitnessShortDst ==
    /\ bbOut.op = "Read" /\ bbOut.err = NoErr
    /\ 0 < Len(bbOut.data) /\ Len(bbOut.data) < Len(bbOut.before)

\* A goroutine in Write evaluates b.bytes, the argument of append: it loads
\* the slice as it is now.
WriteLoad(g, data) ==
    /\ bbW[g].pc = "idle"
    /\ bbW' = [bbW EXCEPT ![g] = [pc |-> "loaded", bytes |-> bb, data |-> data]]
    /\ UNCHANGED <<bb, bbOut, bbHist, fetchVars, rateVars, optVars, pure>>

\* The goroutine appends to the slice it loaded and stores the result in
\* b.bytes; Write returns.  No lock is held between the load and the store.
WriteStore(g, spare) ==
    /\ bbW[g].pc = "loaded"
    /\ bb' = AppendBytes(bbW[g].bytes, bbW[g].data, spare)
    /\ bbW' = [bbW EXCEPT ![g].pc = "done"]
    /\ UNCHANGED <<bbOut, bbHist, fetchVars, rateVars, optVars, pure>>

NextBufRace ==
    \E g \in Writers :
        \/ \E data \in BytesUpTo(MaxData) \ {<<>>} : WriteLoad(g, data)
        \/ \E spare \in 0..1 : WriteStore(g, spare)

SpecBufRace == Init /\ [][NextBufRace]_vars

\* The bytes of the Writes that have returned, counted.
RECURSIVE WrittenBy(_)
WrittenBy(gs) ==
    IF gs = {} THEN 0
    ELSE LET g == CHOOSE x \in gs : TRUE
         IN  (IF bbW[g].pc = "done" THEN Len(bbW[g].data) ELSE 0)
             + WrittenBy(gs \ {g})

\* C29: when the Writes of all goroutines have returned, Len() is the sum
\* of the lengths of all data written.
C29_ConcurrentWritesKept ==
    (\A g \in Writers : bbW[g].pc = "done") => bb.len = WrittenBy(Writers)


(***************************************************************************)
(* cmd.Options again: all setters that may return an error                 *)
(* (src/http/transport_test.go:216-370).                                   *)
(***************************************************************************)
Names == {"", "ls", "ps"}
ArgLists == {<<>>, <<"-l">>, <<"-a", "-l">>}
StdOutWriters == {"nil", "buf1", "buf2"}
ErrEmptyCommandArgs == "name or args is empty"
ErrWriterEmpty == "writer is empty"

\* Command is assigned before the test of args.
SetNameAndArgs_nameFirst(o, commandName, args) ==
    IF commandName = ""
    THEN [opts |-> o, err |-> ErrEmptyCommandArgs]
    ELSE IF Len(args) = 0
    THEN [opts |-> [o EXCEPT !.Command = commandName],
          err |-> ErrEmptyCommandArgs]
    ELSE [opts |-> [o EXCEPT !.Command = commandName, !.Args = args],
          err |-> NoErr]

\* Options.SetNameAndArgs(commandName, args).
SetNameAndArgs(o, commandName, args) ==
    IF commandName = "" \/ Len(args) = 0
    THEN [opts |-> o, err |-> ErrEmptyCommandArgs]
    ELSE [opts |-> [o EXCEPT !.Command = commandName, !.Args = args],
          err |-> NoErr]

\* Options.WithStdOutBuffer(buf).
WithStdOutBuffer(o, buf) ==
    IF buf = "nil"
    THEN [opts |-> o, err |-> ErrWriterEmpty]
    ELSE [opts |-> [o EXCEPT !.stdOutBuffer = buf], err |-> NoErr]

DoSetNameAndArgs(commandName, args) ==
    /\ LET res == SetNameAndArgs(opts, commandName, args)
       IN  /\ opts' = res.opts
           /\ optOut' = [op |-> "SetNameAndArgs", arg |-> <<commandName, args>>,
                         err |-> res.err, before |-> opts,
                         chansBefore |-> chans]
    /\ UNCHANGED <<chans, fetchVars, bufVars, rateVars, pure>>

DoWithStdOutBuffer(buf) ==
    /\ LET res == WithStdOutBuffer(opts, buf)
       IN  /\ opts' = res.opts
           /\ optOut' = [op |-> "WithStdOutBuffer", arg |-> buf,
                         err |-> res.err, before |-> opts,
                         chansBefore |-> chans]
    /\ UNCHANGED <<chans, fetchVars, bufVars, rateVars, pure>>

NextOptAll ==
    \/ \E ch \in Chans : Send(ch) \/ Close(ch)
    \/ \E commandName \in Names, args \in ArgLists :
           DoSetNameAndArgs(commandName, args)
    \/ \E ctx \in Ctxs : DoSetContext(ctx)
    \/ \E doneCh \in Chans \cup {NilChan} : DoSetDoneChannel(doneCh)
    \/ \E buf \in StdOutWriters : DoWithStdOutBuffer(buf)

SpecOptAll == Init /\ [][NextOptAll]_vars

\* Every field of the Options has been set by a successful setter.
AllSet(o) ==
    /\ o.Command # "" /\ o.Args # <<>>
    /\ o.ctx # "nil" /\ o.doneCh # NilChan /\ o.stdOutBuffer # "nil"

\* C30: a setter that returns an error leaves every field of the Options as
\* it was before the call.
C30_ErrorLeavesOptions ==
    optOut.err # NoErr => opts = optOut.before

\* C30 witness: SetNameAndArgs with a name and no args failed on Options
\* whose fields had all been set.
C30_Witness ==
    /\ optOut.op = "SetNameAndArgs" /\ optOut.err # NoErr
    /\ optOut.arg[1] # "" /\ optOut.arg[2] = <<>>
    /\ AllSet(opts)

\* C30 witness cases: each of the other setters failed on such Options.
C30_WitnessContext ==
    optOut.op = "SetContext" /\ optOut.err # NoErr /\ AllSet(opts)

C30_WitnessDoneChannel ==
    /\ optOut.op = "SetDoneChannel" /\ optOut.err = ErrChanClose
    /\ AllSet(opts)

C30_WitnessStdOut ==
    optOut.op = "WithStdOutBuffer" /\ optOut.err # NoErr /\ AllSet(opts)

====
